---- MODULE Spec2Model ----
(***************************************************************************)
(* LeaseManager (src/unnamed/part_000): the subscriber's inventory of      *)
(* leased messages, its flow control and its deadline-extension sweep.     *)
(*                                                                         *)
(* A Message is a record [id, length, received].  The message source       *)
(* numbers the Messages it hands to add() 1, 2, ...: a message is added    *)
(* once and never re-added, so the insertion order of the Set `_messages`  *)
(* is the order of the ids.  Callbacks and histories name a Message by id. *)
(***************************************************************************)
EXTENDS Integers, Sequences, FiniteSets

\* ---- bounds of the model ----
MaxMessages == 3      \* messages the source delivers in a run
MaxLength == 1        \* largest message.length
MaxLimit == 2         \* largest maxMessages / maxBytes option
MaxClock == 1         \* clock steps the run may take
MaxQueue == 3         \* callbacks held by process.nextTick at a time
MaxAckDeadline == 3   \* largest subscriber.ackDeadline, in seconds
MaxLatency == 3       \* largest subscriber.modAckLatency, in seconds
JitterSteps == 10     \* Math.random() returns k / JitterSteps, 0 <= k < JitterSteps

\* ---- constants of the program ----
MsPerMinute == 60 * 1000             \* lifespan is in minutes
MsPerSecond == 1000                  \* ackDeadline is in seconds
ClockStepMs == MsPerMinute           \* Date.now() advances by whole minutes
MaxExtensionMinutes == 1             \* subscriber.maxExtensionTime.totalOf('minute')

VARIABLES
  _options,      \* [allowExcessMessages, maxBytes, maxMessages]
  bytes,         \* LeaseManager.bytes
  _isLeasing,    \* LeaseManager._isLeasing
  _messages,     \* LeaseManager._messages, a set of Messages
  _pending,      \* LeaseManager._pending, a sequence of Messages
  _timer,        \* LeaseManager._timer: 0 (undefined) or a timer handle
  _subscriber,   \* [isOpen, isExactlyOnceDelivery, ackDeadline, modAckLatency]
  created,       \* number of Messages the source has created
  timers,        \* handles of the timeouts armed in the event loop
  nextTick,      \* callbacks queued by process.nextTick, oldest first
  inflight,      \* ids of messages with an unsettled modAckWithResponse
  now,           \* Date.now()
  observed,      \* the last two 'full'/'free' events the listener received
  dispensed,     \* id -> number of _dispense(message) calls
  failed,        \* ids of messages marked with message.ackFailed(e)
  timeout,       \* the last delay computed for setTimeout, and its jitter
  lastOp         \* the operation that ran last, with what it produced

vars == <<_options, bytes, _isLeasing, _messages, _pending, _timer, _subscriber,
          created, timers, nextTick, inflight, now, observed, dispensed, failed,
          timeout, lastOp>>

\* The Message objects remove() can be called with: the held ones, and any
\* Message that is not held, of which remove() reads no field.
NotHeld ==
  [id : (1..created) \ {m.id : m \in _messages},
   length : 0..MaxLength,
   received : {0}]

\* ---- helpers ----
Min(S) == CHOOSE x \in S : \A y \in S : x <= y

Contains(seq, m) == \E i \in 1..Len(seq) : seq[i] = m

IndexOf(seq, m) == Min({i \in 1..Len(seq) : seq[i] = m})

Splice(seq, i) == [j \in 1..(Len(seq) - 1) |-> IF j < i THEN seq[j] ELSE seq[j + 1]]

\* The listener keeps the last two events it received.
Receive(log, ev) == IF Len(log) < 2 THEN Append(log, ev) ELSE <<log[2], ev>>

\* The manager's own fields and what an operation produces, as one record,
\* so that the methods can call each other.
Self ==
  [_messages |-> _messages, _pending |-> _pending, bytes |-> bytes,
   _isLeasing |-> _isLeasing, _timer |-> _timer, timers |-> timers,
   nextTick |-> nextTick, inflight |-> inflight, observed |-> observed,
   dispensed |-> dispensed, failed |-> failed,
   emitted |-> <<>>, deferred |-> <<>>, handed |-> <<>>, stray |-> <<>>,
   renewed |-> <<>>, returned |-> <<>>]

size(this) == Cardinality(this._messages)

pending(this) == Len(this._pending)

isFull(this) ==
  \/ size(this) >= _options.maxMessages
  \/ this.bytes >= _options.maxBytes

\* setTimeout returns a handle that no armed timeout uses.
NewTimer(this) ==
  Min({t \in 1..(Cardinality(this.timers) + 1) : t \notin this.timers})

_scheduleExtension(this) ==
  LET t == NewTimer(this)
  IN [this EXCEPT !._timer = t, !.timers = @ \cup {t}]

\* _cancelExtension() that forgets the handle without clearTimeout.
_cancelExtension_NoClearTimeout(this) ==
  [this EXCEPT !._isLeasing = FALSE, !._timer = 0]

\* _cancelExtension() that leaves _isLeasing set.
_cancelExtension_StaysLeasing(this) ==
  IF this._timer # 0
  THEN [this EXCEPT !.timers = @ \ {this._timer}, !._timer = 0]
  ELSE this

_cancelExtension(this) ==
  LET off == [this EXCEPT !._isLeasing = FALSE]
  IN IF off._timer # 0
     THEN [off EXCEPT !.timers = @ \ {off._timer}, !._timer = 0]
     ELSE off

_dispense(this, m) ==
  LET called == [this EXCEPT !.handed = Append(@, m.id),
                             !.stray = IF m \in this._messages
                                       THEN @ ELSE Append(@, m.id),
                             !.dispensed[m.id] = @ + 1]
  IN IF _subscriber.isOpen
     THEN [called EXCEPT !.nextTick = Append(@, [emit |-> "message", msg |-> m.id])]
     ELSE called

emitFull(this) ==
  [this EXCEPT !.emitted = Append(@, "full"),
               !.observed = Receive(@, "full")]

deferFree(this) ==
  [this EXCEPT !.nextTick = Append(@, [emit |-> "free"]),
               !.deferred = Append(@, "free")]

\* add() that dispenses whatever the fullness was.
add_IgnoresWasFull(this, m) ==
  LET wasFull == isFull(this)
      s1 == [this EXCEPT !._messages = @ \cup {m},
                         !.bytes = @ + m.length]
      s2 == _dispense(s1, m)
      s3 == IF ~s2._isLeasing
            THEN _scheduleExtension([s2 EXCEPT !._isLeasing = TRUE])
            ELSE s2
  IN IF ~wasFull /\ isFull(s3) THEN emitFull(s3) ELSE s3

\* add() that decides from the fullness after the insertion.
add_FullAfterInsert(this, m) ==
  LET wasFull == isFull(this)
      s1 == [this EXCEPT !._messages = @ \cup {m},
                         !.bytes = @ + m.length]
      s2 == IF _options.allowExcessMessages \/ ~isFull(s1)
            THEN _dispense(s1, m)
            ELSE [s1 EXCEPT !._pending = Append(@, m)]
      s3 == IF ~s2._isLeasing
            THEN _scheduleExtension([s2 EXCEPT !._isLeasing = TRUE])
            ELSE s2
  IN IF ~wasFull /\ isFull(s3) THEN emitFull(s3) ELSE s3

\* add() that arms a timeout on every call.
add_AlwaysSchedules(this, m) ==
  LET wasFull == isFull(this)
      s1 == [this EXCEPT !._messages = @ \cup {m},
                         !.bytes = @ + m.length]
      s2 == IF _options.allowExcessMessages \/ ~wasFull
            THEN _dispense(s1, m)
            ELSE [s1 EXCEPT !._pending = Append(@, m)]
      s3 == _scheduleExtension([s2 EXCEPT !._isLeasing = TRUE])
  IN IF ~wasFull /\ isFull(s3) THEN emitFull(s3) ELSE s3

add(this, m) ==
  LET wasFull == isFull(this)
      s1 == [this EXCEPT !._messages = @ \cup {m},
                         !.bytes = @ + m.length]
      s2 == IF _options.allowExcessMessages \/ ~wasFull
            THEN _dispense(s1, m)
            ELSE [s1 EXCEPT !._pending = Append(@, m)]
      s3 == IF ~s2._isLeasing
            THEN _scheduleExtension([s2 EXCEPT !._isLeasing = TRUE])
            ELSE s2
  IN IF ~wasFull /\ isFull(s3) THEN emitFull(s3) ELSE s3

\* remove() without the has() guard.
remove_Unguarded(this, m) ==
  LET wasFull == isFull(this)
      s1 == [this EXCEPT !._messages = @ \ {m},
                         !.bytes = @ - m.length]
      s2 == IF wasFull /\ ~isFull(s1)
            THEN deferFree(s1)
            ELSE IF Contains(s1._pending, m)
            THEN [s1 EXCEPT !._pending = Splice(@, IndexOf(@, m))]
            ELSE IF pending(s1) > 0
            THEN _dispense([s1 EXCEPT !._pending = Tail(@)], Head(s1._pending))
            ELSE s1
  IN IF size(s2) = 0 /\ s2._isLeasing THEN _cancelExtension(s2) ELSE s2

\* remove() that notifies 'free' whenever the inventory was full.
remove_FreeWheneverFull(this, m) ==
  IF m \notin this._messages THEN this
  ELSE
    LET wasFull == isFull(this)
        s1 == [this EXCEPT !._messages = @ \ {m},
                           !.bytes = @ - m.length]
        s2 == IF wasFull
              THEN deferFree(s1)
              ELSE IF Contains(s1._pending, m)
              THEN [s1 EXCEPT !._pending = Splice(@, IndexOf(@, m))]
              ELSE IF pending(s1) > 0
              THEN _dispense([s1 EXCEPT !._pending = Tail(@)], Head(s1._pending))
              ELSE s1
    IN IF size(s2) = 0 /\ s2._isLeasing THEN _cancelExtension(s2) ELSE s2

\* remove() that serves the pending queue even for a message it does not hold.
remove_ServesPendingUnheld(this, m) ==
  IF m \notin this._messages
  THEN IF pending(this) > 0
       THEN _dispense([this EXCEPT !._pending = Tail(@)], Head(this._pending))
       ELSE this
  ELSE
    LET wasFull == isFull(this)
        s1 == [this EXCEPT !._messages = @ \ {m},
                           !.bytes = @ - m.length]
        s2 == IF wasFull /\ ~isFull(s1)
              THEN deferFree(s1)
              ELSE IF Contains(s1._pending, m)
              THEN [s1 EXCEPT !._pending = Splice(@, IndexOf(@, m))]
              ELSE IF pending(s1) > 0
              THEN _dispense([s1 EXCEPT !._pending = Tail(@)], Head(s1._pending))
              ELSE s1
    IN IF size(s2) = 0 /\ s2._isLeasing THEN _cancelExtension(s2) ELSE s2

\* remove() that dispenses the oldest pending message without shifting it.
remove_KeepsHead(this, m) ==
  IF m \notin this._messages THEN this
  ELSE
    LET wasFull == isFull(this)
        s1 == [this EXCEPT !._messages = @ \ {m},
                           !.bytes = @ - m.length]
        s2 == IF wasFull /\ ~isFull(s1)
              THEN deferFree(s1)
              ELSE IF Contains(s1._pending, m)
              THEN [s1 EXCEPT !._pending = Splice(@, IndexOf(@, m))]
              ELSE IF pending(s1) > 0
              THEN _dispense(s1, Head(s1._pending))
              ELSE s1
    IN IF size(s2) = 0 /\ s2._isLeasing THEN _cancelExtension(s2) ELSE s2

remove(this, m) ==
  IF m \notin this._messages THEN this
  ELSE
    LET wasFull == isFull(this)
        s1 == [this EXCEPT !._messages = @ \ {m},
                           !.bytes = @ - m.length]
        s2 == IF wasFull /\ ~isFull(s1)
              THEN deferFree(s1)
              ELSE IF Contains(s1._pending, m)
              THEN [s1 EXCEPT !._pending = Splice(@, IndexOf(@, m))]
              ELSE IF pending(s1) > 0
              THEN _dispense([s1 EXCEPT !._pending = Tail(@)], Head(s1._pending))
              ELSE s1
    IN IF size(s2) = 0 /\ s2._isLeasing THEN _cancelExtension(s2) ELSE s2

\* Array.from(set): the members in insertion order, which is the order of ids.
\* The .catch() handler that marks the message failed and stops there.
modAckCatch_KeepsMessage(this, m) ==
  [this EXCEPT !.failed = @ \cup {m.id}]

\* The .catch() handler of modAckWithResponse: message.ackFailed(e), then
\* this.remove(message).
modAckCatch(this, m) ==
  remove([this EXCEPT !.failed = @ \cup {m.id}], m)

RECURSIVE ArrayFrom(_)
ArrayFrom(S) ==
  IF S = {} THEN <<>>
  ELSE LET m == CHOOSE x \in S : \A y \in S : x.id <= y.id
       IN <<m>> \o ArrayFrom(S \ {m})

Ids(seq) == [i \in 1..Len(seq) |-> seq[i].id]

\* clear() that forgets to reset the byte counter.
clear_KeepsBytes(this) ==
  LET wasFull == isFull(this)
      s1 == [this EXCEPT !._pending = <<>>,
                         !.returned = Ids(ArrayFrom(this._messages)),
                         !._messages = {}]
      s2 == IF wasFull THEN deferFree(s1) ELSE s1
  IN _cancelExtension(s2)

\* clear() that leaves the sweep running.
clear_KeepsSweep(this) ==
  LET wasFull == isFull(this)
      s1 == [this EXCEPT !._pending = <<>>,
                         !.returned = Ids(ArrayFrom(this._messages)),
                         !._messages = {},
                         !.bytes = 0]
  IN IF wasFull THEN deferFree(s1) ELSE s1

clear(this) ==
  LET wasFull == isFull(this)
      s1 == [this EXCEPT !._pending = <<>>,
                         !.returned = Ids(ArrayFrom(this._messages)),
                         !._messages = {},
                         !.bytes = 0]
      s2 == IF wasFull THEN deferFree(s1) ELSE s1
  IN _cancelExtension(s2)

\* The comparison with <= in place of <.
lifespanAtMostMax(m) == (now - m.received) <= MaxExtensionMinutes * MsPerMinute

\* lifespan < maxExtensionMinutes, with lifespan = (Date.now() - received) / 60000
lifespanBelowMax(m) == (now - m.received) < MaxExtensionMinutes * MsPerMinute

extendOne(this, m) ==
  IF lifespanBelowMax(m)
  THEN IF _subscriber.isExactlyOnceDelivery
       THEN [this EXCEPT !.renewed = Append(@, m.id), !.inflight = @ \cup {m.id}]
       ELSE [this EXCEPT !.renewed = Append(@, m.id)]
  ELSE remove(this, m)

\* for (const message of this._messages): a member deleted before its turn
\* is not visited.
RECURSIVE extendLoop(_, _)
extendLoop(this, todo) ==
  IF todo = <<>> THEN this
  ELSE IF Head(todo) \in this._messages
       THEN extendLoop(extendOne(this, Head(todo)), Tail(todo))
       ELSE extendLoop(this, Tail(todo))

_extendDeadlines(this) ==
  LET s1 == extendLoop(this, ArrayFrom(this._messages))
  IN IF s1._isLeasing THEN _scheduleExtension(s1) ELSE s1

\* The delay for setTimeout, in units of 1/JitterSteps ms; jitter is the
\* numerator k of Math.random() = k / JitterSteps.  deadline * 0.9 is exact:
\* deadline is a multiple of 1000.
_getNextExtensionTimeoutMs(jitter) ==
  LET deadline == _subscriber.ackDeadline * MsPerSecond
      latency == _subscriber.modAckLatency
  IN ((deadline * 9) \div 10 - latency) * jitter

\* ---- the state after an operation ----
\* A timeout of the model may fire at any time, whatever its delay: the
\* operations of the inventory leave `timeout` alone.
Done(op, m, this) ==
  /\ timeout' = timeout
  /\ _messages' = this._messages
  /\ _pending' = this._pending
  /\ bytes' = this.bytes
  /\ _isLeasing' = this._isLeasing
  /\ _timer' = this._timer
  /\ timers' = this.timers
  /\ nextTick' = this.nextTick
  /\ inflight' = this.inflight
  /\ observed' = this.observed
  /\ dispensed' = this.dispensed
  /\ failed' = this.failed
  /\ lastOp' = [op |-> op, msg |-> m, emitted |-> this.emitted,
                deferred |-> this.deferred, handed |-> this.handed,
                stray |-> this.stray,
                wasHeld |-> m \in {h.id : h \in _messages},
                renewed |-> this.renewed, returned |-> this.returned]

\* ---- actions ----
\* The message source receives a message and hands it to add().
Add ==
  /\ created < MaxMessages
  /\ \E len \in 0..MaxLength :
       LET m == [id |-> created + 1, length |-> len, received |-> now]
       IN /\ created' = created + 1
          /\ Done("add", m.id, add(Self, m))
  /\ UNCHANGED <<_options, _subscriber, now>>

\* Subscriber.ack / nack, or any other caller of remove().
Remove ==
  /\ \E m \in _messages \cup NotHeld : Done("remove", m.id, remove(Self, m))
  /\ UNCHANGED <<_options, _subscriber, created, now>>

\* Subscriber.close, or any other caller of clear().  With a limit of 0 the
\* inventory is always full and every clear defers a 'free': the guard caps
\* the callbacks that may wait in the queue.
Clear ==
  /\ Len(nextTick) < MaxQueue
  /\ Done("clear", 0, clear(Self))
  /\ UNCHANGED <<_options, _subscriber, created, now>>

\* A timeout armed by _scheduleExtension fires.
Sweep ==
  /\ \E t \in timers :
       Done("sweep", 0, _extendDeadlines([Self EXCEPT !.timers = @ \ {t}]))
  /\ UNCHANGED <<_options, _subscriber, created, now>>

\* The oldest process.nextTick callback runs.
RunNextTick ==
  /\ nextTick # <<>>
  /\ LET cb == Head(nextTick)
         s1 == [Self EXCEPT !.nextTick = Tail(@)]
     IN IF cb.emit = "free"
        THEN Done("tick", 0, [s1 EXCEPT !.observed = Receive(@, "free")])
        ELSE Done("tick", 0, s1)
  /\ UNCHANGED <<_options, _subscriber, created, now>>

\* modAckWithResponse rejects: message.ackFailed(e); this.remove(message).
RenewalFails ==
  /\ \E m \in _messages \cup NotHeld :
       /\ m.id \in inflight
       /\ Done("catch", m.id,
               modAckCatch([Self EXCEPT !.inflight = @ \ {m.id}], m))
  /\ UNCHANGED <<_options, _subscriber, created, now>>

RenewalSucceeds ==
  /\ \E i \in inflight :
       Done("then", i, [Self EXCEPT !.inflight = @ \ {i}])
  /\ UNCHANGED <<_options, _subscriber, created, now>>

Clock ==
  /\ now < MaxClock * ClockStepMs
  /\ now' = now + ClockStepMs
  /\ Done("clock", 0, Self)
  /\ UNCHANGED <<_options, _subscriber, created>>

\* The subscriber closes.
Close ==
  /\ _subscriber.isOpen
  /\ _subscriber' = [_subscriber EXCEPT !.isOpen = FALSE]
  /\ Done("close", 0, Self)
  /\ UNCHANGED <<_options, created, now>>

\* The state after construction, for a subscriber in the given delivery mode.
Boot(exactlyOnce) ==
  /\ _options \in [allowExcessMessages : BOOLEAN,
                   maxBytes : 0..MaxLimit,
                   maxMessages : 0..MaxLimit]
  /\ bytes = 0
  /\ _isLeasing = FALSE
  /\ _messages = {}
  /\ _pending = <<>>
  /\ _timer = 0
  /\ _subscriber \in [isOpen : {TRUE}, isExactlyOnceDelivery : {exactlyOnce},
                      ackDeadline : 1..MaxAckDeadline,
                      modAckLatency : {l * MsPerSecond : l \in 0..MaxLatency}]
  /\ timeout = [scheduled |-> FALSE, jitter |-> 0, scaled |-> 0]
  /\ created = 0
  /\ timers = {}
  /\ nextTick = <<>>
  /\ inflight = {}
  /\ now = 0
  /\ observed = <<>>
  /\ dispensed = [i \in 1..MaxMessages |-> 0]
  /\ failed = {}
  /\ lastOp = [op |-> "new", msg |-> 0, emitted |-> <<>>, deferred |-> <<>>,
               handed |-> <<>>, stray |-> <<>>, wasHeld |-> FALSE,
               renewed |-> <<>>, returned |-> <<>>]

\* Best-effort delivery: modAck is fire-and-forget, no promise is in flight.
Init ==
  /\ Boot(FALSE)
  /\ _subscriber.ackDeadline = 1
  /\ _subscriber.modAckLatency = 0

Next ==
  \/ Add
  \/ Remove
  \/ Clear
  \/ Sweep
  \/ RunNextTick
  \/ Clock
  \/ Close

Spec == Init /\ [][Next]_vars

\* Exactly-once delivery: every renewal is a promise that later settles.
\* The limits are at least 1 and the subscriber stays open here; Spec covers
\* the limits of 0 and the closed subscriber.
InitExactlyOnce ==
  /\ Boot(TRUE)
  /\ _subscriber.ackDeadline = 1
  /\ _subscriber.modAckLatency = 0
  /\ _options.maxBytes >= 1
  /\ _options.maxMessages >= 1

NextExactlyOnce ==
  \/ Add
  \/ Remove
  \/ Clear
  \/ Sweep
  \/ RunNextTick
  \/ Clock
  \/ RenewalFails
  \/ RenewalSucceeds

SpecExactlyOnce == InitExactlyOnce /\ [][NextExactlyOnce]_vars

\* The timeout computation alone: _scheduleExtension draws Math.random() and
\* computes the delay, for every ack deadline and latency of the subscriber.
ScheduleTimeout ==
  /\ \E jitter \in 0..(JitterSteps - 1) :
       timeout' = [scheduled |-> TRUE, jitter |-> jitter,
                   scaled |-> _getNextExtensionTimeoutMs(jitter)]
  /\ UNCHANGED <<_options, bytes, _isLeasing, _messages, _pending, _timer,
                 _subscriber, created, timers, nextTick, inflight, now,
                 observed, dispensed, failed, lastOp>>

InitTimeout ==
  /\ Boot(FALSE)
  /\ _options = [allowExcessMessages |-> FALSE, maxBytes |-> MaxLimit,
                 maxMessages |-> MaxLimit]

NextTimeout == ScheduleTimeout

SpecTimeout == InitTimeout /\ [][NextTimeout]_vars

\* ---- properties ----
Range(seq) == {seq[i] : i \in 1..Len(seq)}

RECURSIVE SumLength(_)
SumLength(S) ==
  IF S = {} THEN 0
  ELSE LET m == CHOOSE x \in S : TRUE
       IN m.length + SumLength(S \ {m})

Count(seq, x) == Cardinality({i \in 1..Len(seq) : seq[i] = x})

HeldIds == {m.id : m \in _messages}

FullNow == isFull(Self)

\* The operations that mutate the inventory through remove().
RemoveOps == {"remove", "sweep", "catch"}

\* Notifications the last operation produced, delivered or deferred.
Produced(op, ev) == Count(op.emitted, ev) + Count(op.deferred, ev)

\* C1: bytes is the sum of the lengths of the held messages, size is their
\* number, and bytes is never negative.
C1_BytesMatchHeld ==
  /\ bytes = SumLength(_messages)
  /\ size(Self) = Cardinality(HeldIds)
  /\ bytes >= 0

\* C1 witness: a remove has run and left messages with bytes in the inventory.
C1_Witness ==
  /\ lastOp.op = "remove"
  /\ Cardinality(_messages) >= 2
  /\ bytes > 0

\* C2: the listener never receives two 'full' in a row nor two 'free' in a row.
C2_StrictAlternation ==
  Len(observed) = 2 => observed[1] # observed[2]

\* C3: no operation delivers a capacity notification to the listener before
\* it returns.
C3_NeverSynchronous ==
  lastOp.emitted = <<>>

\* C4 as stated: every add, remove, clear and sweep produces one 'full' on a
\* false-to-true change of isFull(), one 'free' on a true-to-false change,
\* and nothing otherwise.
C4_OnlyOnTransition ==
  [][lastOp'.op \in RemoveOps \cup {"add", "clear"} =>
       /\ Produced(lastOp', "full") = IF ~FullNow /\ FullNow' THEN 1 ELSE 0
       /\ Produced(lastOp', "free") = IF FullNow /\ ~FullNow' THEN 1 ELSE 0]_vars

\* C4 amended: isFull() is size >= maxMessages or bytes >= maxBytes; add,
\* remove and sweep notify exactly on a change of isFull(); clear notifies
\* 'free' exactly when the inventory was full before it, also when a limit
\* of 0 keeps it full afterwards.
C4_TransitionOrClear ==
  [][/\ FullNow' = (\/ Cardinality(_messages') >= _options.maxMessages
                    \/ bytes' >= _options.maxBytes)
     /\ lastOp'.op \in RemoveOps \cup {"add"} =>
          /\ Produced(lastOp', "full") = IF ~FullNow /\ FullNow' THEN 1 ELSE 0
          /\ Produced(lastOp', "free") = IF FullNow /\ ~FullNow' THEN 1 ELSE 0
     /\ lastOp'.op = "clear" =>
          /\ Produced(lastOp', "full") = 0
          /\ Produced(lastOp', "free") = IF FullNow THEN 1 ELSE 0]_vars

\* C4 witness: a sweep evicted a message and that made the inventory free.
C4_Witness ==
  /\ lastOp.op = "sweep"
  /\ lastOp.deferred = <<"free">>
  /\ _messages # {}
  /\ ~FullNow

\* C5: with allowExcessMessages = false, removing a dispensed message while
\* messages are pending dispenses exactly the oldest pending message and
\* keeps every other held message.
C5_RemoveDispensesOldest ==
  [][\A m \in _messages :
       (/\ lastOp'.op = "remove"
        /\ lastOp'.msg = m.id
        /\ ~_options.allowExcessMessages
        /\ dispensed[m.id] > 0
        /\ _pending # <<>>)
       => /\ lastOp'.handed = <<Head(_pending).id>>
          /\ _pending' = Tail(_pending)
          /\ _messages' = _messages \ {m}]_vars

\* C6: with allowExcessMessages = false and maxMessages >= 1, the held
\* messages that are not pending never number more than maxMessages.
C6_DispensedWithinLimit ==
  (~_options.allowExcessMessages /\ _options.maxMessages >= 1)
    => Cardinality(_messages \ Range(_pending)) <= _options.maxMessages

\* C6 witness: a remove dispensed a pending message and the dispensed held
\* messages are at the limit while another message still waits.
C6_Witness ==
  /\ ~_options.allowExcessMessages
  /\ _options.maxMessages >= 1
  /\ lastOp.op = "remove"
  /\ lastOp.handed # <<>>
  /\ _pending # <<>>
  /\ Cardinality(_messages \ Range(_pending)) = _options.maxMessages

\* C7: every pending message is held and has not been dispensed.
C7_PendingHeldUndispensed ==
  \A i \in 1..Len(_pending) :
    /\ _pending[i] \in _messages
    /\ dispensed[_pending[i].id] = 0

\* C8: remove of a message that is not held changes nothing, dispenses
\* nothing and defers no 'free'.
C8_RemoveIdempotent ==
  [][(lastOp'.op = "remove" /\ lastOp'.msg \notin HeldIds) =>
       /\ UNCHANGED <<_messages, _pending, bytes, _isLeasing, _timer, timers,
                      nextTick, observed, dispensed>>
       /\ lastOp'.handed = <<>>
       /\ lastOp'.deferred = <<>>
       /\ lastOp'.emitted = <<>>]_vars

\* C8 witness: a message that was added and removed is removed again while
\* the inventory holds other messages and the sweep is armed.
C8_Witness ==
  /\ lastOp.op = "remove"
  /\ lastOp.msg \in (1..created) \ HeldIds
  /\ ~lastOp.wasHeld
  /\ bytes > 0
  /\ timers # {}

\* C9: clear returns the messages held before it, empties held and pending,
\* zeroes bytes, cancels the sweep, and defers one 'free' exactly when the
\* inventory was full.
C9_Clear ==
  [][lastOp'.op = "clear" =>
       /\ Range(lastOp'.returned) = HeldIds
       /\ Len(lastOp'.returned) = Cardinality(_messages)
       /\ _messages' = {}
       /\ _pending' = <<>>
       /\ bytes' = 0
       /\ ~_isLeasing'
       /\ _timer' = 0
       /\ timers' = {}
       /\ lastOp'.emitted = <<>>
       /\ lastOp'.deferred = IF FullNow THEN <<"free">> ELSE <<>>
       /\ nextTick' = nextTick \o [i \in 1..Len(lastOp'.deferred) |-> [emit |-> "free"]]]_vars

\* C9 witness: clear returned two messages of a full inventory.
C9_Witness ==
  /\ lastOp.op = "clear"
  /\ Len(lastOp.returned) >= 2
  /\ lastOp.deferred = <<"free">>

\* C10: a sweep removes every held message whose age has reached
\* maxExtensionMinutes without renewing it, and renews every younger held
\* message exactly once and keeps it.
C10_SweepEvictsOrRenews ==
  [][lastOp'.op = "sweep" =>
       \A m \in _messages :
         IF (now - m.received) >= MaxExtensionMinutes * MsPerMinute
         THEN m \notin _messages' /\ Count(lastOp'.renewed, m.id) = 0
         ELSE m \in _messages' /\ Count(lastOp'.renewed, m.id) = 1]_vars

\* C10 witness: one sweep renewed a message and evicted another.
C10_Witness ==
  /\ lastOp.op = "sweep"
  /\ lastOp.renewed # <<>>
  /\ lastOp.deferred = <<"free">>
  /\ _messages # {}

\* C11: under exactly-once delivery a message whose renewal failed
\* permanently is marked failed and is no longer held, and no later sweep
\* renews it.
C11_FailedNeverRenewed ==
  [][/\ lastOp'.op = "catch" => lastOp'.msg \in failed'
     /\ failed' \cap HeldIds' = {}
     /\ lastOp'.op = "sweep" => Range(lastOp'.renewed) \cap failed = {}]_vars

\* C11 witness: the renewal of a held message failed, the message left the
\* inventory and other messages are still leased.
C11_Witness ==
  /\ lastOp.op = "catch"
  /\ lastOp.wasHeld
  /\ lastOp.msg \in failed \ HeldIds
  /\ _messages # {}
  /\ timers # {}

\* C12: no sweep timer is armed while nothing is held, and a sweep only
\* ever fires on a non-empty inventory.
C12_NoSweepWhileEmpty ==
  [][/\ _messages' = {} => timers' = {}
     /\ lastOp'.op = "sweep" => _messages # {}]_vars

\* C12 witness: a failed renewal response removed the last held message after
\* a sweep had fired, and no timer is left.
C12_Witness ==
  /\ lastOp.op = "catch"
  /\ lastOp.wasHeld
  /\ _messages = {}
  /\ timers = {}

\* C13: _isLeasing is true exactly when a message is held.
C13_LeasingIffHeld == _isLeasing <=> (_messages # {})

\* C13 witness: a sweep evicted the last held message and switched the
\* renewal off.
C13_Witness ==
  /\ lastOp.op = "sweep"
  /\ created >= 2
  /\ _messages = {}
  /\ ~_isLeasing

\* C14: add decides from the fullness before the insertion.  With
\* allowExcessMessages or a non-full inventory the message is handed to
\* _dispense (its 'message' callback queued when the subscriber is open) and
\* pending is untouched; otherwise the message becomes the tail of pending
\* and is not dispensed.  With allowExcessMessages pending is always empty.
C14_AddAdmission ==
  [][/\ _options.allowExcessMessages => _pending' = <<>>
     /\ lastOp'.op = "add" =>
          LET id == lastOp'.msg
              m == CHOOSE x \in _messages' : x.id = id
          IN IF _options.allowExcessMessages \/ ~FullNow
             THEN /\ lastOp'.handed = <<id>>
                  /\ _pending' = _pending
                  /\ nextTick' = IF _subscriber.isOpen
                                  THEN Append(nextTick, [emit |-> "message", msg |-> id])
                                  ELSE nextTick
             ELSE /\ lastOp'.handed = <<>>
                  /\ _pending' = Append(_pending, m)
                  /\ nextTick' = nextTick]_vars

\* C14 witness: an add on a full inventory queued its message behind another
\* pending one.
C14_Witness ==
  /\ lastOp.op = "add"
  /\ lastOp.handed = <<>>
  /\ Len(_pending) >= 2
  /\ _pending[Len(_pending)].id = lastOp.msg

\* C15: a failed renewal response for a message that is no longer held
\* changes neither held, pending, bytes, fullness nor the timer, dispenses
\* nothing and notifies no 'free'.
C15_LateFailureNoOp ==
  [][(lastOp'.op = "catch" /\ ~lastOp'.wasHeld) =>
       /\ UNCHANGED <<_messages, _pending, bytes, _isLeasing, _timer, timers,
                      nextTick, observed, dispensed>>
       /\ FullNow' = FullNow
       /\ lastOp'.handed = <<>>
       /\ lastOp'.deferred = <<>>
       /\ lastOp'.emitted = <<>>]_vars

\* C15 witness: the response failed for a message removed earlier, while the
\* inventory holds messages, one of them pending, and the sweep is armed.
C15_Witness ==
  /\ lastOp.op = "catch"
  /\ ~lastOp.wasHeld
  /\ lastOp.msg \in failed
  /\ _pending # <<>>
  /\ timers # {}

\* C16: every delay computed for the sweep lies within
\* [0, ackDeadlineMs * 0.9 - modAckLatencyMs].
C16_DelayWithinRange ==
  timeout.scheduled =>
    LET upper == (_subscriber.ackDeadline * MsPerSecond * 9) \div 10
                 - _subscriber.modAckLatency
    IN /\ 0 <= timeout.scaled
       /\ timeout.scaled <= upper * JitterSteps

\* C17: at most one sweep timeout is armed, and it is the one in _timer.
C17_OneTimer ==
  /\ Cardinality(timers) <= 1
  /\ timers \subseteq {_timer}

\* C17 witness: a sweep fired and armed the next timeout while messages are
\* held.
C17_Witness ==
  /\ lastOp.op = "sweep"
  /\ _messages # {}
  /\ timers = {_timer}

\* C18: without allowExcessMessages, pending is empty whenever the inventory
\* is not full.
C18_NotFullNoPending ==
  (~_options.allowExcessMessages /\ ~FullNow) => _pending = <<>>

\* C19: every message handed to _dispense is held at that moment.
C19_DispensedIsHeld == lastOp.stray = <<>>

\* C20: no message is handed to _dispense more than once.
C20_DispensedAtMostOnce == \A i \in 1..MaxMessages : dispensed[i] <= 1

\* C20 witness: a remove dispensed a pending message after an add had
\* dispensed another, and every message was added.
C20_Witness ==
  /\ lastOp.op = "remove"
  /\ lastOp.handed # <<>>
  /\ created = MaxMessages
  /\ Cardinality({i \in 1..MaxMessages : dispensed[i] = 1}) >= 2

====
